---- MODULE Spec2Model ----
(***************************************************************************)
(* Model of the video-ai-streamer server (src/server/index.js): the        *)
(* subtitle and audio ingestion handlers, the single-slot transcript       *)
(* store, the rate-limited /ask handler and the /transcribe handler.       *)
(*                                                                         *)
(* Text is a sequence of tokens.  A token stands for one character or for  *)
(* one fixed lexical unit:                                                 *)
(*   "d"   a decimal digit            "a"   a letter                       *)
(*   "SP"  a space                    "CR"  carriage return   "LF" newline *)
(*   "T,"  a time HH:MM:SS,mmm        "T."  a time HH:MM:SS.mmm            *)
(*   "-->" the five characters ' --> '                                     *)
(*   "WEBVTT", "Kind:", "Language:"   the VTT header words                 *)
(***************************************************************************)
EXTENDS Integers, Sequences, FiniteSets, TLC

(***************************************************************************)
(* Bounds of the model.                                                    *)
(***************************************************************************)
MaxLines == 3
MaxReq == 2
MaxClock == 4
MaxStamp == 1
MaxHits == 4
MaxLive == 1

(***************************************************************************)
(* String operations of the normalizer (index.js 202-211, 225-230).        *)
(***************************************************************************)

\* String.prototype.split('\n'): the pieces between LF tokens; always at
\* least one piece, the empty text gives one empty line.
RECURSIVE Split(_)
Split(text) ==
  IF \A i \in 1..Len(text) : text[i] # "LF"
  THEN << text >>
  ELSE LET k == CHOOSE i \in 1..Len(text) :
                  text[i] = "LF" /\ \A j \in 1..(i-1) : text[j] # "LF"
       IN << SubSeq(text, 1, k-1) >> \o Split(SubSeq(text, k+1, Len(text)))

\* A join that separates the lines by CR LF.
RECURSIVE JoinCRLF(_)
JoinCRLF(lines) ==
  IF Len(lines) = 0 THEN << >>
  ELSE IF Len(lines) = 1 THEN lines[1]
  ELSE lines[1] \o << "CR", "LF" >> \o JoinCRLF(Tail(lines))

\* Array.prototype.join('\n'): no lines give the empty text.
RECURSIVE Join(_)
Join(lines) ==
  IF Len(lines) = 0 THEN << >>
  ELSE IF Len(lines) = 1 THEN lines[1]
  ELSE lines[1] \o << "LF" >> \o Join(Tail(lines))

\* line.match(/^\d+$/): one or more digits and nothing else; without the m
\* flag $ matches only at the very end of the line, so a trailing CR defeats it.
MatchesLineNumber(line) ==
  Len(line) > 0 /\ \A i \in 1..Len(line) : line[i] = "d"

\* line.match(/^\d{2}:\d{2}:\d{2},\d{3} --> \d{2}:\d{2}:\d{2},\d{3}$/)
MatchesTimestamp(line) ==
  line = << "T,", "-->", "T," >>

\* line.trim() is truthy: some character is not white space.
TrimTruthy(line) ==
  \E i \in 1..Len(line) : line[i] \notin {"SP", "CR", "LF"}

\* line.startsWith(word)
StartsWith(line, word) ==
  Len(line) > 0 /\ line[1] = word

\* index.js 205-210: the VTT branch drops the three header lines only
\* (Array.prototype.filter is SelectSeq).
VttToSrt(text) ==
  LET l0 == Split(text)
      l1 == SelectSeq(l0, LAMBDA l : ~StartsWith(l, "WEBVTT"))
      l2 == SelectSeq(l1, LAMBDA l : ~StartsWith(l, "Kind:"))
      l3 == SelectSeq(l2, LAMBDA l : ~StartsWith(l, "Language:"))
  IN Join(l3)

\* index.js 226-230: the SRT parse.
ParseSrt(text) ==
  LET l0 == Split(text)
      l1 == SelectSeq(l0, LAMBDA l : ~MatchesLineNumber(l))
      l2 == SelectSeq(l1, LAMBDA l : ~MatchesTimestamp(l))
      l3 == SelectSeq(l2, TrimTruthy)
  IN Join(l3)

\* String.prototype.trim(): white space removed at both ends.
RECURSIVE TrimLeft(_)
TrimLeft(text) ==
  IF Len(text) > 0 /\ text[1] \in {"SP", "CR", "LF"}
  THEN TrimLeft(Tail(text)) ELSE text

RECURSIVE TrimRight(_)
TrimRight(text) ==
  IF Len(text) > 0 /\ text[Len(text)] \in {"SP", "CR", "LF"}
  THEN TrimRight(SubSeq(text, 1, Len(text) - 1)) ELSE text

Trim(text) == TrimRight(TrimLeft(text))

(***************************************************************************)
(* JavaScript values crossing the boundaries, and JSON responses.          *)
(***************************************************************************)
JsUndefined == [type |-> "undefined"]
JsString(s) == [type |-> "string", value |-> s]
JsNumber(n) == [type |-> "number", value |-> n]
JsBool(b) == [type |-> "boolean", value |-> b]

\* v.text: only an object has the property; on a string it is undefined.
TextProperty(v) == IF v.type = "object" THEN JsString(v.text) ELSE JsUndefined

\* !v of the handlers' validations: undefined, "" and 0 are falsy.
Falsy(v) ==
  \/ v.type = "undefined"
  \/ v.type = "string" /\ v.value = << >>
  \/ v.type = "number" /\ v.value = 0

\* res.json(obj): JSON.stringify leaves out the fields whose value is undefined.
Json(obj) ==
  [k \in {f \in DOMAIN obj : obj[f].type # "undefined"} |-> obj[k]]

\* body.field of a destructuring: undefined when the field is absent.
Field(body, f) == IF f \in DOMAIN body.fields THEN body.fields[f] ELSE JsUndefined

(***************************************************************************)
(* Program constants.                                                      *)
(***************************************************************************)
windowMs == 60 * 1000
max == 3

(***************************************************************************)
(* Inputs: request slots, client identities, URLs, tool outputs.           *)
(***************************************************************************)
Req == 1..MaxReq
ClientIds == {"c1", "c2"}
VideoUrl == << "a" >>
\* One tick of the clock: the spacing of max requests over a window.
TickMs == windowMs \div max

\* The subtitle file the download tool writes for a URL: SRT cues, or VTT
\* cues under the WEBVTT header.
SubtitleOf(url, ext) ==
  IF ext = "en.vtt"
  THEN << "WEBVTT", "LF", "Kind:", "SP", "a", "LF", "Language:", "SP", "a", "LF",
          "LF", "T.", "-->", "T.", "LF" >> \o url
  ELSE << "d", "LF", "T,", "-->", "T,", "LF" >> \o url \o << "LF" >>

\* The answers of the transcription boundary: text, or a malformed payload.
SpeechA == << "a", "SP", "a" >>
SpeechB == << "b" >>
TranscriptionResults ==
  { JsString(SpeechA), JsString(SpeechB), JsUndefined }

\* The bodies a client may send.
NoBody == JsUndefined
Body(fields) == [type |-> "object", fields |-> fields]
\* A field the client left out reads as undefined.
UploadUrlBodies ==
  { NoBody } \cup
  { Body([videoURL |-> v]) : v \in {JsUndefined, JsString(VideoUrl)} }
UploadVideoBodies ==
  { NoBody } \cup { Body([video |-> v]) : v \in {JsUndefined, JsString(<< "a" >>)} }
AskBodies ==
  { NoBody } \cup
  { Body([question |-> JsUndefined, timestamp |-> JsUndefined]) } \cup
  { Body([question |-> JsString(<< "a" >>), timestamp |-> t]) :
      t \in {JsUndefined, JsNumber(0), JsNumber(5)} }
TranscribeBodies ==
  { NoBody } \cup { Body([audio |-> v]) : v \in {JsUndefined, JsString(<< "a" >>)} }

(***************************************************************************)
(* State.                                                                  *)
(***************************************************************************)
VARIABLES
  globalTranscript,  \* index.js 145
  files,             \* the ./downloads directory: a set of files
  clock,             \* Date.now(), in ms
  req,               \* the requests in flight: handler position and locals
  lastResponse,      \* the response the last step sent, with what its request did
  hits,              \* apiLimiter store: hits of each client in its window
  resetTime,         \* apiLimiter store: end of each client's window
  accepted,          \* history: the times at which /ask let each client through
  nIn, nOut, nPc     \* the normalizer applied to a text on its own

vars == << globalTranscript, files, clock, req, lastResponse, hits, resetTime,
           accepted, nIn, nOut, nPc >>

NoPrompt == [transcript |-> JsUndefined, at |-> 0, question |-> JsUndefined]

\* What came back from the remote model: nothing yet, an error, or a body.
NoReply == [outcome |-> "none", data |-> << >>]
ErrorReply == [outcome |-> "error", data |-> << >>]
DataReply(data) == [outcome |-> "data", data |-> data]

IdleRequest ==
  [kind |-> "none", pc |-> "idle", body |-> NoBody, ts |-> 0,
   transcript |-> JsUndefined, readOwner |-> 0, cleanupFailed |-> FALSE,
   prompt |-> NoPrompt, launches |-> 0, tool |-> "none", calls |-> 0,
   reply |-> NoReply, responses |-> 0]

DoneRequest == [IdleRequest EXCEPT !.pc = "done"]


NoneSent ==
  [id |-> 0, kind |-> "none", ts |-> 0, transcript |-> JsUndefined,
   readOwner |-> 0, cleanupFailed |-> FALSE, prompt |-> NoPrompt,
   launches |-> 0, tool |-> "none", calls |-> 0, reply |-> NoReply,
   status |-> 0, json |-> << >>]

\* path.join(downloadsDir, `${prefix}_${timestamp}.${ext}`)
Path(prefix, timestamp, ext) == [prefix |-> prefix, ts |-> timestamp, ext |-> ext]

FileNames == { f.name : f \in files }

\* fs.writeFileSync / the tools' output: the file at that path is replaced.
WriteFile(fs, name, content, owner) ==
  { f \in fs : f.name # name }
    \cup { [name |-> name, content |-> content, owner |-> owner] }

\* fs.unlinkSync
Unlink(fs, name) == { f \in fs : f.name # name }

\* file.endsWith('.srt') || file.endsWith('.vtt')
IsSubtitleName(name) == name.ext \in {"srt", "en.srt", "en.vtt"}
\* file.endsWith('.vtt')
IsVttName(name) == name.ext = "en.vtt"

NormInit == nIn = << >> /\ nOut = << >> /\ nPc = "off"

Init ==
  /\ globalTranscript = JsString(<< >>)
  /\ files = {}
  /\ clock = 0
  /\ req = [r \in Req |-> IdleRequest]
  /\ lastResponse = NoneSent
  /\ hits = [c \in ClientIds |-> 0]
  /\ resetTime = [c \in ClientIds |-> 0]
  /\ accepted = [c \in ClientIds |-> << >>]
  /\ NormInit

\* Slot r takes the next request: the slots are filled in arrival order.
Arrives(r) ==
  /\ req[r].pc = "idle"
  /\ \A q \in Req : q < r => req[q].pc # "idle"

\* A handler that sends its response and goes on as if it had not.
RespondAndGoOn(r, code, obj, locals) ==
  /\ req' = [req EXCEPT ![r] = [locals EXCEPT !.responses = @ + 1]]
  /\ lastResponse' = [NoneSent EXCEPT !.id = r, !.kind = locals.kind,
                                      !.status = code, !.json = Json(obj)]

\* The handler of request r ends with res.status(code).json(obj): its locals
\* go out of scope, the response sent and what the request did are on record
\* until the next step.
Respond(r, code, obj, locals) ==
  /\ req' = [req EXCEPT ![r] = [DoneRequest EXCEPT !.responses = locals.responses + 1]]
  /\ lastResponse' =
       [id |-> r, kind |-> locals.kind, ts |-> locals.ts,
        transcript |-> locals.transcript, readOwner |-> locals.readOwner,
        cleanupFailed |-> locals.cleanupFailed, prompt |-> locals.prompt,
        launches |-> locals.launches, tool |-> locals.tool,
        calls |-> locals.calls, reply |-> locals.reply,
        status |-> code, json |-> Json(obj)]

\* The handler of request r goes on, or waits, with these locals.
Continue(r, locals) ==
  /\ req' = [req EXCEPT ![r] = locals]
  /\ lastResponse' = NoneSent

\* The catch blocks at 249-255 and 334-340.
FailedToProcessVideo(message) ==
  [error |-> JsString(<< "Failed to process video" >>), details |-> JsString(message)]

\* A handler that launches the tool again when it failed.
RetryTool(r, message) ==
  Continue(r, [req[r] EXCEPT !.tool = "failed", !.launches = @ + 1])

\* 187-191, 296-300: the tool exited non-zero or could not be launched; the
\* callback rejects with the error and the catch block answers.
ToolFailed(r, message) ==
  Respond(r, 500, FailedToProcessVideo(message), [req[r] EXCEPT !.tool = "failed"])

\* Time passes, up to a limit of ticks.
Advance(limit) ==
  /\ clock < limit * TickMs
  /\ clock' = clock + TickMs
  /\ lastResponse' = NoneSent
  /\ UNCHANGED << globalTranscript, files, req, hits, resetTime, accepted,
                  nIn, nOut, nPc >>

(***************************************************************************)
(* POST /upload-url (index.js 153-256).                                    *)
(***************************************************************************)

\* 154-180: validation, the scratch directory, the timestamped path; the
\* handler then waits for yt-dlp.
UploadUrlRequest(r) ==
  /\ Arrives(r)
  /\ \E body \in UploadUrlBodies :
       LET me == [req[r] EXCEPT !.kind = "upload-url", !.body = body] IN
       \/ /\ body.type = "undefined"
          /\ Respond(r, 400, [error |-> JsString(<< "No request body received" >>)], me)
       \/ /\ body.type # "undefined"
          /\ Falsy(Field(body, "videoURL"))
          /\ Respond(r, 400, [error |-> JsString(<< "Video URL is required" >>)], me)
       \/ /\ body.type # "undefined"
          /\ ~Falsy(Field(body, "videoURL"))
          /\ Continue(r, [me EXCEPT !.pc = "yt-dlp", !.ts = clock, !.launches = @ + 1])
  /\ UNCHANGED << globalTranscript, files, clock, hits, resetTime, accepted,
                  nIn, nOut, nPc >>

\* The yt-dlp process at work: it leaves a subtitle file, at the path given
\* with -o or at that path extended by the language and format.
YtDlpRun(r) ==
  /\ req[r].pc = "yt-dlp"
  /\ \E ext \in {"srt", "en.srt", "en.vtt"} :
       files' = WriteFile(files, Path("subtitle", req[r].ts, ext),
                  SubtitleOf(Field(req[r].body, "videoURL").value, ext), r)
  /\ Continue(r, [req[r] EXCEPT !.pc = "yt-dlp-written"])
  /\ UNCHANGED << globalTranscript, clock, hits, resetTime, accepted, nIn, nOut, nPc >>

\* 184-255: the yt-dlp process exits, with an error before it wrote a file or
\* without one; the exec callback runs and, once the promise settles, the
\* rest of the handler, which runs without a further wait.
UploadUrlExit(r) ==
  /\ req[r].pc \in {"yt-dlp", "yt-dlp-written"}
  /\ LET subtitlePath == Path("subtitle", req[r].ts, "srt")
         found == { f \in files : IsSubtitleName(f.name) }
         \* the tool exited with status 0, with or without a subtitle file
         me == [req[r] EXCEPT !.tool = IF req[r].pc = "yt-dlp" THEN "empty"
                                       ELSE "wrote"]
     IN
     \/ \* 187-191: the tool failed
        /\ req[r].pc = "yt-dlp"
        /\ ToolFailed(r, << "Command failed" >>)
        /\ UNCHANGED files
     \/ \* 218-221: readdirSync or readFileSync throws
        /\ Respond(r, 500, FailedToProcessVideo(<< "EIO" >>), me)
        /\ UNCHANGED files
     \/ \* 214-217: no subtitle file in the directory
        /\ found = {}
        /\ Respond(r, 500, FailedToProcessVideo(<< "No subtitle file found" >>), me)
        /\ UNCHANGED files
     \/ \* 196-213, 225-248: a subtitle file is read, parsed, and the response sent;
        \* readdirSync gives the entries in directory order, any of the
        \* subtitle files can be the first
        /\ \E f \in found, unlinkFails \in BOOLEAN :
             LET subtitleText == IF IsVttName(f.name) THEN VttToSrt(f.content)
                                 ELSE f.content
                 transcript == JsString(ParseSrt(subtitleText))
             IN
             /\ files' = IF subtitlePath \in FileNames /\ ~unlinkFails
                         THEN Unlink(files, subtitlePath) ELSE files
             /\ Respond(r, 200, [transcript |-> transcript, success |-> JsBool(TRUE)],
                        [me EXCEPT !.transcript = transcript,
                                   !.readOwner = f.owner,
                                   !.cleanupFailed =
                                      (subtitlePath \in FileNames /\ unlinkFails)])
  /\ UNCHANGED << globalTranscript, clock, hits, resetTime, accepted, nIn, nOut, nPc >>

(***************************************************************************)
(* POST /upload-video (index.js 259-341).                                  *)
(***************************************************************************)

\* 260-291: validation, the three timestamped paths, the video written to
\* its scratch file; the handler then waits for ffmpeg.
UploadVideoRequest(r) ==
  /\ Arrives(r)
  /\ \E body \in UploadVideoBodies :
       LET me == [req[r] EXCEPT !.kind = "upload-video", !.body = body] IN
       \/ /\ body.type = "undefined"
          /\ Respond(r, 400, [error |-> JsString(<< "No request body received" >>)], me)
          /\ UNCHANGED files
       \/ /\ body.type # "undefined"
          /\ Falsy(Field(body, "video"))
          /\ Respond(r, 400, [error |-> JsString(<< "Video is required" >>)], me)
          /\ UNCHANGED files
       \/ \* 286: writeFileSync throws
          /\ body.type # "undefined"
          /\ ~Falsy(Field(body, "video"))
          /\ Respond(r, 500, FailedToProcessVideo(<< "EIO" >>), [me EXCEPT !.ts = clock])
          /\ UNCHANGED files
       \/ /\ body.type # "undefined"
          /\ ~Falsy(Field(body, "video"))
          /\ files' = WriteFile(files, Path("video", clock, "mp4"),
                                Field(body, "video").value, r)
          /\ Continue(r, [me EXCEPT !.pc = "ffmpeg", !.ts = clock, !.launches = @ + 1])
  /\ UNCHANGED << globalTranscript, clock, hits, resetTime, accepted, nIn, nOut, nPc >>

\* The ffmpeg process at work: it leaves the WAV file at audioPath.
FfmpegRun(r) ==
  /\ req[r].pc = "ffmpeg"
  /\ files' = WriteFile(files, Path("audio", req[r].ts, "wav"), << "a" >>, r)
  /\ Continue(r, [req[r] EXCEPT !.pc = "ffmpeg-written"])
  /\ UNCHANGED << globalTranscript, clock, hits, resetTime, accepted, nIn, nOut, nPc >>

\* 293-312: the ffmpeg process exits, with an error before it wrote the file
\* or without one; the exec callback runs, the WAV is read and encoded, the
\* request to the transcription boundary sent.
FfmpegExit(r) ==
  /\ req[r].pc \in {"ffmpeg", "ffmpeg-written"}
  /\ LET audioPath == Path("audio", req[r].ts, "wav") IN
     \/ \* 296-300: the tool failed
        /\ req[r].pc = "ffmpeg"
        /\ ToolFailed(r, << "Command failed" >>)
     \/ \* 306: readFileSync throws, the file is absent or unreadable
        /\ req[r].pc = "ffmpeg-written"
        /\ Respond(r, 500, FailedToProcessVideo(<< "ENOENT" >>),
                   [req[r] EXCEPT !.tool = "wrote"])
     \/ /\ req[r].pc = "ffmpeg-written"
        /\ audioPath \in FileNames
        /\ Continue(r, [req[r] EXCEPT !.pc = "transcribing", !.tool = "wrote"])
  /\ UNCHANGED << globalTranscript, files, clock, hits, resetTime, accepted,
                  nIn, nOut, nPc >>

\* A store that keeps the first transcript it was given.
StoreFirstOnly(old, transcript) ==
  IF old = JsString(<< >>) THEN transcript ELSE old

\* 326: globalTranscript = transcript
StoreTranscript(old, transcript) == transcript

\* A handler that assigns the store as soon as it has the transcript.
StoreAssignedFirst(old, transcript) == transcript

\* 317-323: a statement before the assignment at 326 throws, the assignment
\* is not reached.
StoreWhenThrown(old, transcript) == old

\* 330: transcript.text, the transcript field of the response.
ResponseTranscript(transcript) == TextProperty(transcript)

\* 310-340: the transcription boundary answers; the scratch files are
\* removed, the transcript saved and stored, the response sent.
TranscriptionReturn(r) ==
  /\ req[r].pc = "transcribing"
  /\ LET audioPath == Path("audio", req[r].ts, "wav")
         videoPath == Path("video", req[r].ts, "mp4")
         transcriptPath == Path("transcript", req[r].ts, "txt")
     IN
     \/ \* 310: axios.post rejects
        /\ Respond(r, 500, FailedToProcessVideo(<< "Request failed" >>), req[r])
        /\ UNCHANGED << files, globalTranscript >>
     \/ \E transcript \in TranscriptionResults :
          LET me == [req[r] EXCEPT !.transcript = transcript]
              f1 == Unlink(files, audioPath)
              f2 == WriteFile(f1, transcriptPath,
                              IF transcript.type = "string" THEN transcript.value
                              ELSE << >>, r)
              f3 == Unlink(f2, videoPath)
          IN
          \/ \* 317: unlinkSync(audioPath) throws
             /\ Respond(r, 500, FailedToProcessVideo(<< "ENOENT" >>),
                        [me EXCEPT !.cleanupFailed = TRUE])
             /\ UNCHANGED files
             /\ globalTranscript' = StoreWhenThrown(globalTranscript, transcript)
          \/ \* 320: writeFileSync throws, on a transcript that is no string
             \* or on an I/O error
             /\ audioPath \in FileNames
             /\ files' = f1
             /\ Respond(r, 500, FailedToProcessVideo(<< "ERR_INVALID_ARG_TYPE" >>), me)
             /\ globalTranscript' = StoreWhenThrown(globalTranscript, transcript)
          \/ \* 323: unlinkSync(videoPath) throws
             /\ audioPath \in FileNames
             /\ transcript.type = "string"
             /\ files' = f2
             /\ Respond(r, 500, FailedToProcessVideo(<< "ENOENT" >>),
                        [me EXCEPT !.cleanupFailed = TRUE])
             /\ globalTranscript' = StoreWhenThrown(globalTranscript, transcript)
          \/ \* 326-332
             /\ audioPath \in FileNames
             /\ transcript.type = "string"
             /\ videoPath \in FileNames
             /\ files' = f3
             /\ globalTranscript' = StoreTranscript(globalTranscript, transcript)
             /\ Respond(r, 200, [success |-> JsBool(TRUE),
                                 transcript |-> ResponseTranscript(transcript),
                                 timestamp |-> JsNumber(req[r].ts)], me)
  /\ UNCHANGED << clock, hits, resetTime, accepted, nIn, nOut, nPc >>

(***************************************************************************)
(* POST /ask behind apiLimiter (index.js 74-87, 344-378).                  *)
(***************************************************************************)

\* express-rate-limit, default store: the client's window is over when its
\* reset time has been reached; the next hit opens a new one.
WindowOver(reset, now) == reset <= now

\* The hit count of the client after this request.
HitsAfter(c) == IF WindowOver(resetTime[c], clock) THEN 1 ELSE hits[c] + 1

\* Of the times a client was let through, those less than a window ago.
Recent(times) == SelectSeq(times, LAMBDA t : clock - t < windowMs)

\* 78-81: the rejection of the limiter.
TooManyRequests ==
  [error |-> JsString(<< "Too many requests" >>),
   details |-> JsString(<< "Please wait 20 seconds between requests" >>)]

\* 356: timestamp || Math.floor(Date.now() / 1000)
CurrentTimestamp(timestamp) ==
  IF Falsy(timestamp) THEN clock \div 1000 ELSE timestamp.value

\* A prompt that leaves the transcript out.
PromptWithoutTranscript(store, timestamp, question) ==
  [transcript |-> JsString(<< >>), at |-> CurrentTimestamp(timestamp),
   question |-> question]

\* 356-364: the prompt, with the store's value as it is now.
Prompt(store, timestamp, question) ==
  [transcript |-> store, at |-> CurrentTimestamp(timestamp), question |-> question]

\* 75-87, 345-368: the limiter counts the request and rejects it beyond max;
\* otherwise the handler validates, builds the prompt and calls the model.
AskFrom(r, clients) ==
  /\ Arrives(r)
  /\ \E c \in clients, body \in AskBodies :
       LET me == [req[r] EXCEPT !.kind = "ask", !.body = body] IN
       /\ HitsAfter(c) <= MaxHits
       /\ hits' = [hits EXCEPT ![c] = HitsAfter(c)]
       /\ resetTime' = [resetTime EXCEPT ![c] =
                          IF WindowOver(resetTime[c], clock) THEN clock + windowMs
                          ELSE resetTime[c]]
       /\ \/ /\ HitsAfter(c) > max
             /\ Respond(r, 429, TooManyRequests, me)
             /\ UNCHANGED accepted
          \/ /\ HitsAfter(c) <= max
             /\ accepted' = [accepted EXCEPT ![c] = Append(Recent(@), clock)]
             /\ \/ /\ body.type = "undefined"
                   /\ Respond(r, 400,
                              [error |-> JsString(<< "No request body received" >>)], me)
                \/ /\ body.type # "undefined"
                   /\ Falsy(Field(body, "question"))
                   /\ Respond(r, 400,
                              [error |-> JsString(<< "Question is required" >>)], me)
                \/ /\ body.type # "undefined"
                   /\ ~Falsy(Field(body, "question"))
                   /\ Continue(r,
                        [me EXCEPT !.pc = "generating", !.calls = @ + 1,
                                   !.prompt = Prompt(globalTranscript,
                                                     Field(body, "timestamp"),
                                                     Field(body, "question"))])
  /\ UNCHANGED << globalTranscript, files, clock, nIn, nOut, nPc >>

\* A request of the one user of the server.
AskRequest(r) == AskFrom(r, {"c1"})

\* A request of any client.
AskRequestAny(r) == AskFrom(r, ClientIds)

\* The candidate lists the remote model may return.
ModelReplies ==
  { << >>, << JsUndefined >>, << JsString(<< "SP", "b", "SP" >>) >> }

\* A model client that takes a missing text for an empty one.
EmptyTextWhenMissing(data) ==
  IF Len(data) = 0 \/ data[1].type # "string" THEN JsString(<< >>) ELSE data[1]

\* A model client that finds no text in any body.
NoGeneratedText(data) == JsUndefined

\* 67: response.data[0].generated_text, undefined when there is no candidate
\* or the first candidate has no text (either way a TypeError follows).
GeneratedText(data) == IF Len(data) = 0 THEN JsUndefined ELSE data[1]

\* 56-72, 368-377: the model call returns or fails.
GenerateResponseReturn(r) ==
  /\ req[r].pc = "generating"
  /\ \/ \* 58: the request fails or the status is not 2xx
        Respond(r, 500, [error |-> JsString(<< "Failed to get answer" >>),
                         details |-> JsString(<< "Request failed" >>)],
                [req[r] EXCEPT !.reply = ErrorReply])
     \/ \E data \in ModelReplies :
          LET me == [req[r] EXCEPT !.reply = DataReply(data)] IN
          \/ \* 67: data[0] is undefined; 369: answer is undefined
             /\ GeneratedText(data).type # "string"
             /\ Respond(r, 500, [error |-> JsString(<< "Failed to get answer" >>),
                                 details |-> JsString(<< "TypeError" >>)], me)
          \/ /\ GeneratedText(data).type = "string"
             /\ Respond(r, 200, [answer |-> JsString(Trim(GeneratedText(data).value))],
                        me)
  /\ UNCHANGED << globalTranscript, files, clock, hits, resetTime, accepted,
                  nIn, nOut, nPc >>

(***************************************************************************)
(* POST /transcribe (index.js 107-130).                                    *)
(***************************************************************************)
\* The handler never waits: the request is answered in the step it arrives.
TranscribeRequest(r) ==
  /\ Arrives(r)
  /\ \E body \in TranscribeBodies :
       LET me == [req[r] EXCEPT !.kind = "transcribe", !.body = body] IN
       \/ \* 109: destructuring an absent body throws
          /\ body.type = "undefined"
          /\ Respond(r, 500, [error |-> JsString(<< "Failed to process transcription" >>),
                              details |-> JsString(<< "TypeError" >>)], me)
       \/ /\ body.type # "undefined"
          /\ Falsy(Field(body, "audio"))
          /\ Respond(r, 400, [error |-> JsString(<< "Audio data is required" >>)], me)
       \/ /\ body.type # "undefined"
          /\ ~Falsy(Field(body, "audio"))
          /\ Respond(r, 200, [transcript |->
                     JsString(<< "Transcription completed successfully" >>)], me)
  /\ UNCHANGED << globalTranscript, files, clock, hits, resetTime, accepted,
                  nIn, nOut, nPc >>

\* The slots of the finished requests serve the next requests.
ForgetIn(slots) ==
  /\ \A q \in slots : req[q].pc = "done"
  /\ req' = [q \in Req |-> IF q \in slots THEN IdleRequest ELSE req[q]]
  /\ lastResponse' = NoneSent
  /\ UNCHANGED << globalTranscript, files, clock, hits, resetTime, accepted,
                  nIn, nOut, nPc >>

Forget == ForgetIn(Req)

(***************************************************************************)
(* The server: MaxReq requests of any kind, in any interleaving.           *)
(***************************************************************************)
Tick == Advance(MaxStamp)

Next ==
  \/ Tick
  \/ \E r \in Req :
       \/ UploadUrlRequest(r) \/ YtDlpRun(r) \/ UploadUrlExit(r)
       \/ UploadVideoRequest(r) \/ FfmpegRun(r) \/ FfmpegExit(r)
       \/ TranscriptionReturn(r)
       \/ AskRequest(r) \/ GenerateResponseReturn(r)
       \/ TranscribeRequest(r)

Spec == Init /\ [][Next]_vars

(***************************************************************************)
(* The /ask path on its own: requests of the clients over several limiter  *)
(* windows.                                                                *)
(***************************************************************************)
TickLimiter == Advance(MaxClock)

NextLimiter ==
  \/ TickLimiter
  \/ Forget
  \/ \E r \in Req : AskRequestAny(r) \/ GenerateResponseReturn(r)

SpecLimiter == Init /\ [][NextLimiter]_vars

(***************************************************************************)
(* The server for as long as it runs: its requests come one after the      *)
(* other or together, the slots of the answered requests are used again;   *)
(* every tool started exits and every call made returns or fails.          *)
(***************************************************************************)
Live == 1..MaxLive

ForgetLive == ForgetIn(Live)

NextLive ==
  \/ ForgetLive
  \/ \E r \in Live :
       \/ UploadUrlRequest(r) \/ YtDlpRun(r) \/ UploadUrlExit(r)
       \/ UploadVideoRequest(r) \/ FfmpegRun(r) \/ FfmpegExit(r)
       \/ TranscriptionReturn(r)
       \/ AskRequest(r) \/ GenerateResponseReturn(r)
       \/ TranscribeRequest(r)

SpecLive ==
  /\ Init
  /\ [][NextLive]_vars
  /\ \A r \in Live :
       /\ WF_vars(UploadUrlExit(r))
       /\ WF_vars(FfmpegExit(r))
       /\ WF_vars(TranscriptionReturn(r))
       /\ WF_vars(GenerateResponseReturn(r))
  /\ WF_vars(ForgetLive)

(***************************************************************************)
(* The SRT parse on its own, applied to a text and then to its own output. *)
(***************************************************************************)

\* The lines the input texts are made of.
InputLines ==
  { << >>, << "SP" >>, << "CR" >>,
    << "d" >>, << "d", "d" >>, << "d", "CR" >>,
    << "T,", "-->", "T," >>, << "T,", "-->", "T,", "CR" >>,
    << "T.", "-->", "T." >>, << "T," >>, << "-->", "T," >>,
    << "a" >>, << "a", "SP", "d" >>, << "b", "CR" >> }

\* The texts of n lines, each line but the last ended by LF.
RECURSIVE TextsOf(_)
TextsOf(n) ==
  IF n = 1 THEN InputLines
  ELSE { l \o << "LF" >> \o t : l \in InputLines, t \in TextsOf(n - 1) }

InputTexts == UNION { TextsOf(n) : n \in 1..MaxLines }

InitNorm ==
  /\ globalTranscript = JsString(<< >>)
  /\ files = {}
  /\ clock = 0
  /\ req = [r \in Req |-> IdleRequest]
  /\ lastResponse = NoneSent
  /\ hits = [c \in ClientIds |-> 0]
  /\ resetTime = [c \in ClientIds |-> 0]
  /\ accepted = [c \in ClientIds |-> << >>]
  /\ nIn \in InputTexts
  /\ nOut = << >>
  /\ nPc = "raw"

\* The text is parsed.
NormalizeOnce ==
  /\ nPc = "raw"
  /\ nOut' = ParseSrt(nIn)
  /\ nPc' = "once"
  /\ UNCHANGED << globalTranscript, files, clock, req, lastResponse, hits,
                  resetTime, accepted, nIn >>

\* The output is parsed again.
NormalizeAgain ==
  /\ nPc = "once"
  /\ nIn' = nOut
  /\ nOut' = ParseSrt(nOut)
  /\ nPc' = "twice"
  /\ UNCHANGED << globalTranscript, files, clock, req, lastResponse, hits,
                  resetTime, accepted >>

NextNorm == NormalizeOnce \/ NormalizeAgain

SpecNorm == InitNorm /\ [][NextNorm]_vars

(***************************************************************************)
(* Properties.                                                             *)
(***************************************************************************)
Succeeded == "success" \in DOMAIN lastResponse.json
SentBy(kind) == lastResponse.kind = kind
Failed == lastResponse.status >= 400

\* C1: when an ingestion request (/upload-url or /upload-video) has just
\* answered success: true, the Transcript Store holds the transcript that this
\* ingestion produced.
C1_SuccessStoresTranscript ==
  ((SentBy("upload-url") \/ SentBy("upload-video")) /\ Succeeded)
    => globalTranscript = lastResponse.transcript

\* C2: the store is empty until an ingestion writes it, and every step either
\* is the store write of a successful ingestion, after which the store
\* holds that ingestion's transcript whatever it held and in whatever order
\* the requests were issued, or leaves the store as it is.
C2_LastWriteWins ==
  /\ globalTranscript = JsString(<< >>)
  /\ [][ IF lastResponse'.kind = "upload-video" /\ "success" \in DOMAIN lastResponse'.json
         THEN globalTranscript' = lastResponse'.transcript
         ELSE globalTranscript' = globalTranscript ]_vars

\* C2 witness: request 1 has just written the store after request 2, issued
\* later and with another timestamp, wrote a different transcript (its
\* transcript file is there, its video file is gone).
C2_Witness ==
  /\ SentBy("upload-video") /\ Succeeded /\ lastResponse.id = 1
  /\ globalTranscript = JsString(SpeechA)
  /\ \E f \in files :
       /\ f.owner = 2 /\ f.name.prefix = "transcript" /\ f.content = SpeechB
       /\ f.name.ts # lastResponse.ts
       /\ Path("video", f.name.ts, "mp4") \notin FileNames

\* The requests of client c let through in the windowMs that start at time t.
AcceptedWithin(c, t) ==
  { i \in DOMAIN accepted[c] : t <= accepted[c][i] /\ accepted[c][i] < t + windowMs }

\* C3: for every client and every interval of windowMs, wherever it starts,
\* at most max /ask requests of the client arriving in it are let through.
C3_SlidingWindow ==
  \A c \in ClientIds : \A i \in DOMAIN accepted[c] :
    Cardinality(AcceptedWithin(c, accepted[c][i])) <= max

\* A line that is a timestamp range, in the SRT or in the VTT notation.
IsTimestampRange(line) ==
  /\ Len(line) = 3
  /\ line[1] \in {"T,", "T."} /\ line[2] = "-->" /\ line[3] \in {"T,", "T."}

\* A line that consists of digits only.
IsDigitsOnly(line) == Len(line) > 0 /\ \A i \in 1..Len(line) : line[i] = "d"

\* C4: the transcript of a successful /upload-url response is not empty and
\* has no line of digits only and no timestamp-range line, whether the
\* artifact was SRT or VTT.
C4_CleanTranscript ==
  (SentBy("upload-url") /\ Succeeded) =>
    LET text == lastResponse.json.transcript.value IN
    /\ text # << >>
    /\ \A i \in 1..Len(Split(text)) :
         ~IsDigitsOnly(Split(text)[i]) /\ ~IsTimestampRange(Split(text)[i])

\* A line of an SRT file without its line end: the file's lines end in LF or
\* in CR LF.
Content(line) ==
  IF Len(line) > 0 /\ line[Len(line)] = "CR"
  THEN SubSeq(line, 1, Len(line) - 1) ELSE line

\* A dialogue line of an SRT file: not an index, not a timestamp range, not blank.
IsDialogue(line) ==
  /\ ~IsDigitsOnly(Content(line))
  /\ Content(line) # << "T,", "-->", "T," >>
  /\ \E i \in 1..Len(line) : line[i] \notin {"SP", "CR"}

\* C5: for every SRT input the normalized transcript is exactly its dialogue
\* lines, in their order, joined by newlines.
C5_ExactlyDialogue ==
  nPc = "once" => nOut = Join(SelectSeq(Split(nIn), IsDialogue))

\* C6: the SRT parse applied to its own output yields the same text.
C6_Idempotent ==
  nPc = "twice" => nOut = nIn

\* C6 witness: the parse has run on its own output of several lines.
C6_Witness ==
  nPc = "twice" /\ Len(Split(nIn)) >= 2 /\ nOut = nIn

\* C7: a successful /upload-video response is {success: true, transcript,
\* timestamp}, its transcript the text the transcription boundary returned and
\* the request wrote to the store.
C7_VideoResponseTranscript ==
  (SentBy("upload-video") /\ Succeeded) =>
    /\ DOMAIN lastResponse.json = {"success", "transcript", "timestamp"}
    /\ lastResponse.json.transcript = lastResponse.transcript
    /\ lastResponse.json.transcript = globalTranscript

\* C8: every failure response of every endpoint carries an error field and
\* a details field.
C8_FailureHasErrorAndDetails ==
  Failed => {"error", "details"} \subseteq DOMAIN lastResponse.json

\* C9: when an /upload-url request that read the subtitle file of its own
\* tool has completed, and no cleanup failure was logged, that file is no longer
\* in the scratch directory.
C9_ArtifactDeleted ==
  (SentBy("upload-url") /\ lastResponse.readOwner = lastResponse.id
     /\ ~lastResponse.cleanupFailed) =>
    ~ \E f \in files : f.owner = lastResponse.id /\ IsSubtitleName(f.name)

\* C10: when an /upload-video request has completed, in success or in failure,
\* and no deletion failed, no file it created is in the scratch directory.
C10_NoScratchLeft ==
  (SentBy("upload-video") /\ ~lastResponse.cleanupFailed) =>
    ~ \E f \in files : f.owner = lastResponse.id

\* C11: when the download tool of an /upload-url request exited successfully
\* without producing a subtitle file, whatever the earlier and the concurrent
\* requests did, the response is a failure without a transcript whose details
\* name the absence of the subtitle file (or the I/O error of the lookup).
C11_ArtifactMissingFails ==
  (SentBy("upload-url") /\ lastResponse.tool = "empty") =>
    /\ Failed
    /\ "transcript" \notin DOMAIN lastResponse.json
    /\ lastResponse.json.details \in
         { JsString(<< "No subtitle file found" >>), JsString(<< "EIO" >>) }

\* The first candidate of the model's reply has a text.
HasText(reply) ==
  reply.outcome = "data" /\ Len(reply.data) > 0 /\ reply.data[1].type = "string"

\* C12: an /ask request that arrives while the store is still empty (so
\* before any ingestion succeeded) is answered at once only by the limiter or
\* by the validation of its body; otherwise its prompt embeds the empty
\* transcript and its question and the model is called; and when the model
\* returns a text the response is 200 with that text, trimmed; the request
\* fails only when the model call does.
C12_AskBeforeIngestion ==
  /\ [](  (SentBy("ask") /\ lastResponse.prompt.transcript = JsString(<< >>)) =>
            /\ lastResponse.calls = 1
            /\ IF HasText(lastResponse.reply)
               THEN /\ lastResponse.status = 200
                    /\ lastResponse.json =
                         [answer |-> JsString(Trim(lastResponse.reply.data[1].value))]
               ELSE /\ lastResponse.status = 500
                    /\ lastResponse.json.error = JsString(<< "Failed to get answer" >>) )
  /\ [][ \A r \in Req :
          ( /\ globalTranscript = JsString(<< >>)
            /\ req[r].pc = "idle" /\ req'[r].pc # "idle"
            /\ req'[r].kind = "ask" \/ (lastResponse'.id = r /\ lastResponse'.kind = "ask") )
          => \/ /\ lastResponse'.id = r
                /\ \/ lastResponse'.json = TooManyRequests
                   \/ /\ lastResponse'.status = 400
                      /\ lastResponse'.json.error \in
                           { JsString(<< "No request body received" >>),
                             JsString(<< "Question is required" >>) }
             \/ /\ req'[r].pc = "generating"
                /\ req'[r].prompt.transcript = JsString(<< >>)
                /\ req'[r].prompt.question = Field(req'[r].body, "question")
                /\ req'[r].prompt.question.type = "string" ]_vars

\* C12 witness: the answer of the model to a question asked over the empty
\* transcript has been returned.
C12_Witness ==
  /\ SentBy("ask") /\ lastResponse.status = 200
  /\ lastResponse.prompt.transcript = JsString(<< >>)
  /\ globalTranscript = JsString(<< >>)
  /\ lastResponse.json = [answer |-> JsString(<< "b" >>)]

\* C13: a step that changes the store is the last step of an ingestion
\* request that answers success; a step that answers an /ask or a /transcribe
\* request, that answers any request with a failure or a rejection, or that
\* answers nothing, leaves the store as it was.
C13_StoreFrame ==
  [][ /\ globalTranscript' # globalTranscript =>
           /\ lastResponse'.kind \in {"upload-url", "upload-video"}
           /\ lastResponse'.status = 200
           /\ "success" \in DOMAIN lastResponse'.json
      /\ ( \/ lastResponse'.kind \in {"ask", "transcribe", "none"}
           \/ lastResponse'.status >= 400 )
         => globalTranscript' = globalTranscript ]_vars

\* C13 witness: an ingestion that had its transcript has just failed, and the
\* store still holds the other transcript an earlier ingestion wrote.
C13_Witness ==
  /\ SentBy("upload-video") /\ Failed
  /\ lastResponse.transcript = JsString(SpeechA)
  /\ globalTranscript = JsString(SpeechB)

\* C14: the transcript of a successful /upload-url response was read from a
\* subtitle file written by the tool invocation of that same request.
C14_ReadsOwnArtifact ==
  (SentBy("upload-url") /\ Succeeded) => lastResponse.readOwner = lastResponse.id

\* C15: when the deletion of a scratch file failed in an ingestion request
\* that had obtained its transcript, the request still answers success, and an
\* /upload-video request has written its transcript to the store.
C15_CleanupFailureIsHarmless ==
  ( /\ SentBy("upload-url") \/ SentBy("upload-video")
    /\ lastResponse.cleanupFailed
    /\ lastResponse.transcript.type = "string" )
  => /\ lastResponse.status = 200 /\ Succeeded
     /\ SentBy("upload-video") => globalTranscript = lastResponse.transcript

\* C16: no ingestion request launches its tool more than once; a request
\* whose tool failed is not in flight any more: the step in which the tool
\* failed answered it with the failure, after one launch, with no file read, no
\* transcript obtained from the transcription boundary, and the store and the
\* scratch directory left as they were.
C16_ToolFailureEndsRequest ==
  /\ [](  /\ \A r \in Req : req[r].launches <= 1 /\ req[r].tool # "failed"
          /\ lastResponse.launches <= 1
          /\ lastResponse.tool = "failed" =>
               /\ lastResponse.launches = 1
               /\ lastResponse.status = 500
               /\ lastResponse.json.error = JsString(<< "Failed to process video" >>)
               /\ lastResponse.readOwner = 0
               /\ lastResponse.transcript = JsUndefined )
  /\ [][ lastResponse'.tool = "failed" =>
           /\ globalTranscript' = globalTranscript
           /\ files' = files
           /\ req[lastResponse'.id].pc \in {"yt-dlp", "ffmpeg"} ]_vars

\* C16 witness: the transcoding tool of an /upload-video request has failed
\* and the request was answered with the failure, while the store holds the
\* transcript of an earlier ingestion.
C16_Witness ==
  /\ SentBy("upload-video") /\ lastResponse.tool = "failed"
  /\ lastResponse.status = 500 /\ lastResponse.launches = 1
  /\ globalTranscript = JsString(SpeechA)

C18_OneModelCall ==
  /\ \A r \in Req : req[r].calls = IF req[r].pc = "generating" THEN 1 ELSE 0
  /\ SentBy("ask") =>
       /\ lastResponse.calls = IF lastResponse.status \in {400, 429} THEN 0 ELSE 1
       /\ (lastResponse.calls = 0) = (lastResponse.reply = NoReply)
       /\ (lastResponse.calls = 1 /\ ~HasText(lastResponse.reply)) =>
            lastResponse.json =
              [error |-> JsString(<< "Failed to get answer" >>),
               details |-> JsString(IF lastResponse.reply = ErrorReply
                                    THEN << "Request failed" >> ELSE << "TypeError" >>)]

\* C18 witness: the model returned an empty candidate list and the request
\* was answered with the failure after its one call.
C18_Witness ==
  /\ SentBy("ask") /\ lastResponse.calls = 1
  /\ lastResponse.reply = DataReply(<< >>)
  /\ lastResponse.status = 500

\* C19: the timestamp anchor in the prompt of an /ask request that supplies
\* a timestamp (a number of seconds, 0 included) is the supplied value; it is
\* the current time in seconds when the request supplies none.
C19_TimestampAnchor ==
  \A r \in Req :
    req[r].pc = "generating" =>
      LET timestamp == Field(req[r].body, "timestamp") IN
      IF timestamp.type = "number"
      THEN req[r].prompt.at = timestamp.value
      ELSE req[r].prompt.at = clock \div 1000 \/ req[r].prompt.at < clock \div 1000

\* C20: the transcript in the prompt of an /ask request is the store's value
\* in the step that handles the request; while the model call is in flight
\* the prompt stays as it is, whatever is written to the store; and the
\* response is made of that prompt's call alone: the answer is the text the
\* model returned, trimmed.
C20_PromptSnapshot ==
  [][ \A r \in Req :
        /\ (req[r].pc = "idle" /\ req'[r].pc = "generating") =>
             /\ req'[r].prompt.transcript = globalTranscript
             /\ globalTranscript' = globalTranscript
        /\ (req[r].pc = "generating" /\ req'[r].pc = "generating") =>
             req'[r].prompt = req[r].prompt
        /\ (req[r].pc = "generating" /\ req'[r].pc = "done") =>
             /\ lastResponse'.id = r
             /\ lastResponse'.prompt = req[r].prompt
             /\ HasText(lastResponse'.reply) =>
                  lastResponse'.json =
                    [answer |-> JsString(Trim(lastResponse'.reply.data[1].value))] ]_vars

\* C20 witness: a request handled while the store was empty has been
\* answered from its prompt with the empty transcript, after an ingestion
\* wrote the store.
C20_Witness ==
  /\ SentBy("ask") /\ lastResponse.status = 200
  /\ lastResponse.prompt.transcript = JsString(<< >>)
  /\ globalTranscript = JsString(SpeechA)

====
